---- MODULE Spec2Model ----
(***************************************************************************)
(* Model of the cross-block series frame iteration engine:                 *)
(*   src/dbnode/encoding/arrow/tile/series_block_iterator.go               *)
(* seriesBlockIter (the orchestrator) is translated from its source.  Its  *)
(* collaborators (the per-series reader, the cross-block iterator, the     *)
(* series frame iterator and the recorder) live in other files and are     *)
(* modelled from their documented contracts.                               *)
(***************************************************************************)
EXTENDS Integers, Sequences, FiniteSets, TLC

VARIABLES
    constructed,  \* NewSeriesBlockIterator has returned
    opts,         \* the Options value handed to NewSeriesBlockIterator
    ctorErr,      \* the error NewSeriesBlockIterator returned
    err,          \* seriesBlockIter.err
    exhausted,    \* seriesBlockIter.exhausted
    step,         \* seriesBlockIter.step
    start,        \* seriesBlockIter.start
    recorder,     \* seriesBlockIter.recorder  (instance reference)
    iter,         \* seriesBlockIter.iter      (instance reference)
    blockIter,    \* seriesBlockIter.blockIter (instance reference)
    tags,         \* seriesBlockIter.tags
    id,           \* seriesBlockIter.id
    reader,       \* state of the external fs.CrossBlockReader
    blockSt,      \* state of the fs.CrossBlockIterator instance
    iterSt,       \* state of the SeriesFrameIterator instance
    recSt,        \* state of the recorder instance
    ret,          \* the last operation of the caller and what it returned
    callLog,      \* the collaborator calls the last operation made, in order
    hist,         \* history of the run (observations only, never read by the code)
    handler,      \* PromWriteHandler: its metrics and the calls of ServeHTTP
    parseCall,       \* the last call of parseRequest on its own
    tsIter        \* a promTSIter and what its caller has seen of it

vars == <<constructed, opts, ctorErr, err, exhausted, step, start, recorder,
          iter, blockIter, tags, id, reader, blockSt, iterSt, recSt, ret,
          callLog, hist, handler, parseCall, tsIter>>

\* the variables of the Prometheus remote write path
writeVars == <<handler, parseCall, tsIter>>

bFields == <<err, exhausted, step, start, recorder, iter, blockIter, tags, id>>

-----------------------------------------------------------------------------
(* Bounds of the model *)

MaxTime == 4        \* datapoint timestamps are 0..MaxTime
MaxPts == 2         \* datapoints per series of the reader's universe
MaxSeries == 2      \* series the reader delivers in one run
MaxNextCalls == 3   \* calls of seriesBlockIter.Next in one run
MaxCloses == 2      \* calls of seriesBlockIter.Close in one run

Starts == {0, 1}         \* values of Options.Start
FrameSizes == {0, 1, 2, 3}  \* values of Options.FrameSize (0 is the invalid one)

-----------------------------------------------------------------------------
(* Values *)

Nil == "nil"                                   \* the nil error
ReaderErrs == {"errReader1", "errReader2"}     \* errors of reader.Err()
ErrDecode == "errDecode"                       \* a block cursor's decode error
ErrBeforeStart == "errBeforeStart"             \* datapoint earlier than start
ErrFrameSize == "errFrameSize"                 \* non-positive step
ErrIterClose == "errIterClose"                 \* failure of the frame iterator's Close
ErrRelease == "errRelease"                     \* failure to return arena memory
ErrBlockClose == "errBlockClose"               \* failure of the cross-block iterator's Close

NoID == "noID"                                 \* zero value of ident.ID
NoTags == "noTags"                             \* zero value of ident.TagIterator
NoRef == "noRef"                               \* nil reference

Times == 0..MaxTime

\* the non-decreasing sequences of n timestamps: one block's encoded datapoints
SortedSeqs(n) ==
    {s \in [1..n -> Times] : \A i \in 1..(n - 1) : s[i] <= s[i + 1]}

\* a block record: the timestamps its cursor yields, and whether the cursor
\* ends with a decode error instead of a clean end
BlockRecords(n) == [pts : SortedSeqs(n), bad : BOOLEAN]

\* the block-record lists of one series: at most two blocks holding at most
\* n datapoints together
RecordLists(n) ==
    {<<>>}
    \cup {<<b>> : b \in UNION {BlockRecords(k) : k \in 0..n}}
    \cup UNION {{<<b1, b2>> : b1 \in BlockRecords(k), b2 \in BlockRecords(n - k)} \cup
                {<<b1, b2>> : b1 \in BlockRecords(k), b2 \in BlockRecords(0)}
                : k \in 0..n}

NoSeries == [id |-> NoID, tags |-> NoTags, records |-> <<>>]

\* what the reader delivers in a run of the orchestrator
PlainSeries ==
    { [id |-> "a", tags |-> "ta",
       records |-> <<[pts |-> <<0, 2>>, bad |-> FALSE], [pts |-> <<3>>, bad |-> FALSE]>>],
      [id |-> "b", tags |-> "tb",
       records |-> <<[pts |-> <<1>>, bad |-> TRUE], [pts |-> <<4>>, bad |-> FALSE]>>],
      [id |-> "c", tags |-> "ta", records |-> <<>>] }

\* what the reader delivers in a run that exercises the windowing
RichSeries == {[id |-> "a", tags |-> "ta", records |-> r] : r \in RecordLists(MaxPts)}

-----------------------------------------------------------------------------
(* fs.CrossBlockIterator: merges the block records of one series *)

NoDP == [t |-> -1, v |-> -1]

\* the datapoints of block number b: the value identifies the datapoint
BlockDPs(b, pts) == [i \in 1..Len(pts) |-> [t |-> pts[i], v |-> 10 * b + i]]

\* the blocks the merge reads: a decode error ends the merge, so the blocks
\* after the first bad one are never read
ReadableCount(records) ==
    IF \E i \in 1..Len(records) : records[i].bad
    THEN CHOOSE i \in 1..Len(records) :
            records[i].bad /\ \A j \in 1..(i - 1) : ~records[j].bad
    ELSE Len(records)

HasDecodeError(records) == \E i \in 1..Len(records) : records[i].bad

\* plain concatenation: d after whatever was emitted before it
InsertDPAtEnd(s, d) == Append(s, d)

RECURSIVE InsertDP(_, _)
\* d placed after every datapoint of s that is not later than it (stable)
InsertDP(s, d) ==
    IF s = <<>> THEN <<d>>
    ELSE IF s[Len(s)].t <= d.t THEN Append(s, d)
    ELSE Append(InsertDP(SubSeq(s, 1, Len(s) - 1), d), s[Len(s)])

RECURSIVE InsertAll(_, _)
InsertAll(s, ds) ==
    IF ds = <<>> THEN s ELSE InsertAll(InsertDP(s, Head(ds)), Tail(ds))

RECURSIVE MergeFrom(_, _, _)
MergeFrom(records, b, last) ==
    IF b > last THEN <<>>
    ELSE InsertAll(MergeFrom(records, b, last - 1), BlockDPs(last, records[last].pts))

\* the datapoints the cross-block iterator yields for these block records:
\* block order, with an in-order emit where blocks overlap (earlier block
\* first on equal timestamps)
Merged(records) == MergeFrom(records, 1, ReadableCount(records))

BlockIterNew(ref) ==
    [ref |-> ref, records |-> <<>>, pos |-> 0, err |-> Nil, resets |-> 0, closes |-> 0]

\* Reset(blockRecords): discards the merge state and starts over the records
BlockIterReset(st, records) ==
    [st EXCEPT !.records = records, !.pos = 0, !.err = Nil, !.resets = st.resets + 1]

\* Close(): releases the per-block cursors
BlockIterClose(st) ==
    [st EXCEPT !.closes = st.closes + 1]

\* what a Close of the cross-block iterator may produce
BlockIterCloseErrs(st) == {Nil, ErrBlockClose}

-----------------------------------------------------------------------------
(* recorder: the columnar (arena) and the flat backend *)

RecorderNew(ref, kind) ==
    [ref |-> ref, kind |-> kind, released |-> FALSE, arenaReturns |-> 0,
     releaseCalls |-> 0]

\* what a release() may produce: returning arena memory may fail; the flat
\* backend has nothing to return, and neither has a recorder already released
RecorderReleaseErrs(st) ==
    IF st.kind = "columnar" /\ ~st.released THEN {Nil, ErrRelease} ELSE {Nil}

\* release() producing e: returns the backing storage to its origin unless it
\* fails; idempotent; a no-op for the flat backend
RecorderRelease(st, e) ==
    [st EXCEPT !.released = st.released \/ e = Nil,
               !.arenaReturns = IF st.kind = "columnar" /\ ~st.released /\ e = Nil
                                THEN st.arenaReturns + 1 ELSE st.arenaReturns,
               !.releaseCalls = st.releaseCalls + 1]

-----------------------------------------------------------------------------
(* SeriesFrameIterator: re-slices the merged datapoints into frames *)

NoFrame == [start |-> -1, pts |-> <<>>]

FrameIterNew(ref, rec) ==
    [ref |-> ref, rec |-> rec, start |-> 0, step |-> 0, src |-> NoRef,
     buf |-> NoDP, emitted |-> <<>>, cur |-> NoFrame, err |-> Nil,
     done |-> FALSE, resets |-> 0, closes |-> 0]

\* Reset(start, step, source): rebinds the windowing state to a new series
FrameIterReset(st, s, d, src) ==
    [st EXCEPT !.start = s, !.step = d, !.src = src, !.buf = NoDP,
               !.emitted = <<>>, !.cur = NoFrame, !.err = Nil, !.done = FALSE,
               !.resets = st.resets + 1]

\* the index of the frame a datapoint at t belongs to
FrameIndex(t, s, d) == (t - s) \div d

RECURSIVE RunLen(_, _, _, _)
\* how many of the leading datapoints of dps do not lie beyond frame k
RunLen(dps, k, s, d) ==
    IF dps = <<>> \/ FrameIndex(Head(dps).t, s, d) > k THEN 0
    ELSE 1 + RunLen(Tail(dps), k, s, d)

\* Next(): one call, as [ok, iter, block]: what it returns and the states of
\* the frame iterator and of its datapoint source after it
FrameIterNextResult(st, src) ==
    LET stream == Merged(src.records)
        held   == IF st.buf = NoDP THEN <<>> ELSE <<st.buf>>
        avail  == held \o SubSeq(stream, src.pos + 1, Len(stream))
        srcEnd == [src EXCEPT !.pos = Len(stream),
                              !.err = IF HasDecodeError(src.records)
                                      THEN ErrDecode ELSE src.err]
    IN
    IF st.err # Nil \/ st.done \/ st.src = NoRef
    THEN [ok |-> FALSE, iter |-> st, block |-> src]
    ELSE IF st.step <= 0
    THEN [ok |-> FALSE, iter |-> [st EXCEPT !.err = ErrFrameSize], block |-> src]
    ELSE IF avail = <<>>
    THEN [ok |-> FALSE,
          iter |-> [st EXCEPT !.err = srcEnd.err, !.done = (srcEnd.err = Nil)],
          block |-> srcEnd]
    ELSE IF avail[1].t < st.start
    THEN [ok |-> FALSE,
          iter |-> [st EXCEPT !.err = ErrBeforeStart, !.buf = NoDP],
          block |-> [src EXCEPT !.pos = src.pos + 1 - Len(held)]]
    ELSE
    LET k == FrameIndex(avail[1].t, st.start, st.step)
        n == RunLen(avail, k, st.start, st.step)
        f == [start |-> st.start + k * st.step, pts |-> SubSeq(avail, 1, n)]
    IN
    IF n < Len(avail)
    THEN [ok |-> TRUE,
          iter |-> [st EXCEPT !.buf = avail[n + 1], !.cur = f,
                              !.emitted = Append(st.emitted, f)],
          block |-> [src EXCEPT !.pos = src.pos + n + 1 - Len(held)]]
    ELSE IF srcEnd.err # Nil
    THEN [ok |-> FALSE,
          iter |-> [st EXCEPT !.err = srcEnd.err, !.buf = NoDP],
          block |-> srcEnd]
    ELSE [ok |-> TRUE,
          iter |-> [st EXCEPT !.buf = NoDP, !.cur = f,
                              !.emitted = Append(st.emitted, f)],
          block |-> srcEnd]

\* Close(): releases the recorder and the buffered state
FrameIterClose(st) ==
    [st EXCEPT !.buf = NoDP, !.closes = st.closes + 1]

\* the errors a Close of the frame iterator may return, the first time or later
FrameIterCloseErrs(st) == {Nil, ErrIterClose}

\* what the release() inside a Close of the frame iterator that returns e
\* produced, the recorder being in state rec
FrameIterReleaseErr(rec, e) ==
    IF e # Nil /\ ErrRelease \in RecorderReleaseErrs(rec) THEN ErrRelease ELSE Nil

-----------------------------------------------------------------------------
(* fs.CrossBlockReader: the external per-series reader *)

\* the series a reader may deliver
SeriesPool(pool) == IF pool = "rich" THEN RichSeries ELSE PlainSeries

\* the outcomes of one reader.Next(): the next series, or false with the
\* error reader.Err() then reports (nil on plain exhaustion)
ReaderNextOutcomes(r) ==
    {[ok |-> TRUE, reader |-> [r EXCEPT !.cur = s, !.left = r.left - 1]] :
        s \in IF r.left > 0 THEN SeriesPool(r.pool) ELSE {}}
    \cup
    {[ok |-> FALSE, reader |-> [r EXCEPT !.err = e]] : e \in {Nil} \cup ReaderErrs}

-----------------------------------------------------------------------------
(* PromWriteHandler: src/query/api/v1/handler/prometheus/remote/write.go *)

\* the variables of the frame iteration engine
tileVars == <<constructed, opts, ctorErr, err, exhausted, step, start, recorder,
              iter, blockIter, tags, id, reader, blockSt, iterSt, recSt, ret,
              callLog, hist>>

MaxRequests == 2   \* calls of ServeHTTP in one run

StatusBadRequest == 400
StatusInternalServerError == 500

\* header values, as sequences of tokens: " " is white space, anything else a
\* word without white space
MetricsTypeHeaders ==
    {<<>>, <<" ">>, <<"unaggregated">>, <<" ", "unaggregated", " ">>,
     <<"aggregated">>, <<"aggregated", " ">>, <<"bogus">>}
StoragePolicyHeaders ==
    {<<>>, <<" ">>, <<"1m:40d">>, <<" ", "1m:40d">>, <<"bogus">>}

\* request bodies: a WriteRequest of one sample, unreadable, not a WriteRequest
Bodies == {"ok", "unreadable", "notProto"}

Requests ==
    [mtype : MetricsTypeHeaders, policy : StoragePolicyHeaders, body : Bodies]

\* the samples of the WriteRequest in a body
Samples(body) == IF body = "ok" THEN <<"sample">> ELSE <<>>

RECURSIVE TrimLeft(_)
TrimLeft(v) == IF v # <<>> /\ Head(v) = " " THEN TrimLeft(Tail(v)) ELSE v

RECURSIVE TrimRight(_)
TrimRight(v) ==
    IF v # <<>> /\ v[Len(v)] = " " THEN TrimRight(SubSeq(v, 1, Len(v) - 1)) ELSE v

\* strings.TrimSpace (lines 257, 272): leading and trailing white space removed
TrimSpace(v) == TrimRight(TrimLeft(v))

\* storage.ParseMetricsType: the type the string names, or invalid
ParseMetricsType(v) ==
    IF v = <<"unaggregated">> THEN "unaggregated"
    ELSE IF v = <<"aggregated">> THEN "aggregated"
    ELSE "invalid"

NoPolicy == [resolution |-> "none", retention |-> "none"]

\* policy.ParseStoragePolicy: resolution:retention, or NoPolicy when the string
\* does not parse
ParseStoragePolicy(v) ==
    IF v = <<"1m:40d">> THEN [resolution |-> "1m", retention |-> "40d"]
    ELSE NoPolicy

NoParseError == [code |-> 0, inner |-> Nil]
ParseError(inner, code) == [code |-> code, inner |-> inner]

\* the zero ingest.WriteOptions
NoWriteOptions ==
    [DownsampleOverride |-> FALSE, DownsampleMappingRules |-> <<>>,
     WriteOverride |-> FALSE, WriteStoragePolicies |-> <<>>]

UnaggregatedPolicyIgnored(strPolicy) == NoParseError

\* lines 274-279: an unaggregated write must not name a storage policy
UnaggregatedPolicyError(strPolicy) ==
    IF strPolicy # <<>>
    THEN ParseError("errUnaggregatedStoragePolicySet", StatusBadRequest)
    ELSE NoParseError

\* lines 256-294: the write options the headers ask for, as [opts, err]
HeaderOptions(r) ==
    LET v == TrimSpace(r.mtype) IN
    IF v = <<>> THEN [opts |-> NoWriteOptions, err |-> NoParseError]
    ELSE
    LET metricsType == ParseMetricsType(v)
        strPolicy == TrimSpace(r.policy)
        down == [NoWriteOptions EXCEPT !.DownsampleOverride = TRUE,
                                       !.DownsampleMappingRules = <<>>]
    IN
    IF metricsType = "invalid"
    THEN [opts |-> NoWriteOptions,
          err |-> ParseError("errParseMetricsType", StatusBadRequest)]
    ELSE IF metricsType = "unaggregated"
    THEN IF UnaggregatedPolicyError(strPolicy) # NoParseError
         THEN [opts |-> NoWriteOptions, err |-> UnaggregatedPolicyError(strPolicy)]
         ELSE [opts |-> down, err |-> NoParseError]
    ELSE
    LET parsed == ParseStoragePolicy(strPolicy) IN
    IF parsed = NoPolicy
    THEN [opts |-> NoWriteOptions,
          err |-> ParseError("errParseStoragePolicy", StatusBadRequest)]
    ELSE [opts |-> [down EXCEPT !.WriteOverride = TRUE,
                                !.WriteStoragePolicies = <<parsed>>],
          err |-> NoParseError]

\* prometheus.ParsePromCompressedRequest (line 305): the error for a body
BodyError(body) ==
    IF body = "unreadable" THEN ParseError("errReadBody", StatusInternalServerError)
    ELSE NoParseError

NoWriteRequest == [present |-> FALSE, samples |-> <<>>]

\* lines 253-316: parseRequest, as [req, opts, err]
ParseRequest(r) ==
    LET h == HeaderOptions(r)
        rejected(e) == [req |-> NoWriteRequest, opts |-> NoWriteOptions, err |-> e]
    IN
    IF h.err # NoParseError THEN rejected(h.err)
    ELSE IF BodyError(r.body) # NoParseError THEN rejected(BodyError(r.body))
    ELSE IF r.body = "notProto"
    THEN rejected(ParseError("errUnmarshal", StatusBadRequest))
    ELSE [req |-> [present |-> TRUE, samples |-> Samples(r.body)], opts |-> h.opts,
          err |-> NoParseError]

\* the errors a batch error holds
ErrKinds == {"badRequest", "invalidParams", "retryable"}

\* client.IsBadRequestError / xerrors.IsInvalidParams
IsBadRequestError(e) == e = "badRequest"
IsInvalidParams(e) == e = "invalidParams"

\* how many errors a batch error may hold
ErrCounts == {0, 1, 2}

NilBatch == [isNil |-> TRUE, errs |-> <<>>]

\* what WriteBatch may return: nil, or a batch error holding these errors
BatchOutcomes ==
    {NilBatch} \cup
    {[isNil |-> FALSE, errs |-> e] : e \in UNION {[1..n -> ErrKinds] : n \in ErrCounts}}

NoTally == [numRegular |-> 0, numBadRequest |-> 0, lastRegularErr |-> "",
            lastBadRequestErr |-> ""]

RECURSIVE Tally(_)
\* lines 200-212: the errors counted by kind, the last message of each kind kept
Tally(errs) ==
    IF errs = <<>> THEN NoTally
    ELSE LET t == Tally(SubSeq(errs, 1, Len(errs) - 1))
             e == errs[Len(errs)]
         IN
         IF IsBadRequestError(e) \/ IsInvalidParams(e)
         THEN [t EXCEPT !.numBadRequest = @ + 1, !.lastBadRequestErr = e]
         ELSE [t EXCEPT !.numRegular = @ + 1, !.lastRegularErr = e]

BatchStatusAnyBadRequest(numBadRequest, n) ==
    IF numBadRequest > 0 THEN StatusBadRequest ELSE StatusInternalServerError

\* lines 214-222: the status of a failed write
BatchStatus(numBadRequest, n) ==
    IF numBadRequest = n THEN StatusBadRequest ELSE StatusInternalServerError

\* lines 233-245: the message of the response to a failed write
ResultErr(t) ==
    (IF t.lastRegularErr # ""
     THEN <<[kind |-> "retryable_errors", count |-> t.numRegular,
             last |-> t.lastRegularErr]>>
     ELSE <<>>)
    \o
    (IF t.lastBadRequestErr # ""
     THEN <<[kind |-> "bad_request_errors", count |-> t.numBadRequest,
             last |-> t.lastBadRequestErr]>>
     ELSE <<>>)

CountersNoReturn(parseFailed, batchIsNil, status) ==
    IF parseFailed THEN <<"writeErrorsClient">>
    ELSE IF batchIsNil THEN <<"writeSuccess">>
    ELSE IF status = StatusBadRequest THEN <<"writeErrorsClient", "writeSuccess">>
    ELSE <<"writeErrorsServer", "writeSuccess">>

\* lines 176, 218, 221, 250: the counters one ServeHTTP increments
Counters(parseFailed, batchIsNil, status) ==
    IF parseFailed THEN <<"writeErrorsClient">>
    ELSE IF batchIsNil THEN <<"writeSuccess">>
    ELSE IF status = StatusBadRequest THEN <<"writeErrorsClient">>
    ELSE <<"writeErrorsServer">>

Incs(cs, name) == Cardinality({i \in 1..Len(cs) : cs[i] = name})

\* one call of ServeHTTP, on its own goroutine: where it is (pc), what it
\* holds, and incs, the counters it has incremented so far
NewCall ==
    [pc |-> "parse", req |-> NoWriteRequest, opts |-> NoWriteOptions,
     rErr |-> NoParseError, wrote |-> FALSE, batch |-> NilBatch, status |-> 0,
     message |-> <<>>, incs |-> <<>>]

\* lines 106-113, 164-170: a new handler, its counters at zero, no call running
NewPromWriteHandler ==
    [writeSuccess |-> 0, writeErrorsServer |-> 0, writeErrorsClient |-> 0,
     ingestLatency |-> 0, writes |-> 0, served |-> 0, calls |-> <<>>]

\* the calls of ServeHTTP that are at pc
CallsAt(pc) == {k \in 1..Len(handler.calls) : handler.calls[k].pc = pc}

\* tally.Counter.Inc(1) on each counter of cs
Inc(h, cs) ==
    [h EXCEPT !.writeSuccess = @ + Incs(cs, "writeSuccess"),
              !.writeErrorsServer = @ + Incs(cs, "writeErrorsServer"),
              !.writeErrorsClient = @ + Incs(cs, "writeErrorsClient")]

\* line 173: net/http calls ServeHTTP(w, r) on a goroutine of its own
ServeHTTP ==
    /\ handler.served < MaxRequests
    /\ handler' = [handler EXCEPT !.served = @ + 1, !.calls = Append(@, NewCall)]
    /\ UNCHANGED <<tileVars, tsIter, parseCall>>

\* lines 174-179: the request is read and parsed; a request that does not parse
\* is counted and answered
ServeHTTPParse ==
    /\ \E k \in CallsAt("parse"), r \in Requests :
          LET p == ParseRequest(r)
              cs == Counters(TRUE, TRUE, p.err.code)
          IN
          IF p.err # NoParseError
          THEN handler' =
                  [Inc(handler, cs) EXCEPT
                      !.calls[k] =
                          [@ EXCEPT !.pc = "done", !.rErr = p.err,
                                    !.status = p.err.code,
                                    !.message = <<[kind |-> p.err.inner, count |-> 1,
                                                   last |-> p.err.inner]>>,
                                    !.incs = @ \o cs]]
          ELSE handler' =
                  [handler EXCEPT
                      !.calls[k] = [@ EXCEPT !.pc = "write", !.req = p.req,
                                             !.opts = p.opts]]
    /\ UNCHANGED <<tileVars, tsIter, parseCall>>

\* lines 181, 318-325: h.write calls WriteBatch(ctx, iter, opts); opts is not
\* read after this line
ServeHTTPWrite ==
    /\ \E k \in CallsAt("write") :
          handler' =
              [handler EXCEPT
                  !.writes = @ + 1,
                  !.calls[k] = [@ EXCEPT !.pc = "writing", !.wrote = TRUE,
                                         !.opts = NoWriteOptions]]
    /\ UNCHANGED <<tileVars, tsIter, parseCall>>

\* line 181: WriteBatch returns, with nil or a batch error
ServeHTTPWriteReturn ==
    /\ \E k \in CallsAt("writing"), batch \in BatchOutcomes :
          handler' =
              [handler EXCEPT !.calls[k] = [@ EXCEPT !.pc = "record", !.batch = batch]]
    /\ UNCHANGED <<tileVars, tsIter, parseCall>>

\* lines 184-190: the age of each sample is recorded
ServeHTTPRecord ==
    /\ \E k \in CallsAt("record") :
          handler' =
              [handler EXCEPT
                  !.ingestLatency = @ + Len(handler.calls[k].req.samples),
                  !.calls[k] = [@ EXCEPT !.pc = "respond"]]
    /\ UNCHANGED <<tileVars, tsIter, parseCall>>

\* lines 192-250: the outcome of the write is counted and answered
ServeHTTPRespond ==
    /\ \E k \in CallsAt("respond") :
          LET batch == handler.calls[k].batch
              t == Tally(batch.errs)
              status == IF batch.isNil THEN 200
                        ELSE BatchStatus(t.numBadRequest, Len(batch.errs))
              cs == Counters(FALSE, batch.isNil, status)
          IN
          handler' =
              [Inc(handler, cs) EXCEPT
                  !.calls[k] =
                      [@ EXCEPT !.pc = "done", !.status = status,
                                !.message = IF batch.isNil THEN <<>> ELSE ResultErr(t),
                                !.incs = @ \o cs]]
    /\ UNCHANGED <<tileVars, tsIter, parseCall>>

\* parseRequest not called yet
NotParsed ==
    [called |-> FALSE, r |-> [mtype |-> <<>>, policy |-> <<>>, body |-> "ok"],
     req |-> NoWriteRequest, opts |-> NoWriteOptions, rErr |-> NoParseError]

\* lines 253-316: h.parseRequest(r), its arguments and results kept
ParseRequestCall ==
    /\ \E r \in Requests :
          LET p == ParseRequest(r) IN
          parseCall' = [called |-> TRUE, r |-> r, req |-> p.req, opts |-> p.opts,
                     rErr |-> p.err]
    /\ UNCHANGED <<tileVars, handler, tsIter>>

-----------------------------------------------------------------------------
(* promTSIter: src/query/api/v1/handler/prometheus/remote/write.go *)

MaxTS == 2        \* time series in one write request
ExtraNexts == 2   \* calls of Next after the one that first returned false
MaxRestarts == 1  \* calls of Restart
MaxTagIdx == 3    \* the tag iterator's idx stops growing here

\* label names and values are byte strings, written as sequences of bytes
Label(name, value) == [Name |-> name, Value |-> value]
Sample(t, v) == [Timestamp |-> t, Value |-> v]

\* the time series a request may hold: labels out of order, no samples, no labels
SeriesChoices ==
    {[Labels |-> <<Label(<<1, 2>>, <<8>>), Label(<<1>>, <<9>>)>>,
      Samples |-> <<Sample(3, 30)>>],
     [Labels |-> <<Label(<<1>>, <<5>>)>>, Samples |-> <<>>],
     [Labels |-> <<>>, Samples |-> <<Sample(1, 10), Sample(2, 20)>>]}

\* the labels a holder of the tag iterator may reset it onto
ResetLabels == {<<>>, <<Label(<<3>>, <<4>>)>>}

TimeSeriesInputs == UNION {[1..n -> SeriesChoices] : n \in 0..MaxTS}

RECURSIVE BytesLess(_, _)
\* bytes.Compare(a, b) == -1
BytesLess(a, b) ==
    IF b = <<>> THEN FALSE
    ELSE IF a = <<>> THEN TRUE
    ELSE IF Head(a) # Head(b) THEN Head(a) < Head(b)
    ELSE BytesLess(Tail(a), Tail(b))

RECURSIVE InsertLabel(_, _)
InsertLabel(l, sorted) ==
    IF sorted = <<>> THEN <<l>>
    ELSE IF BytesLess(l.Name, Head(sorted).Name) THEN <<l>> \o sorted
    ELSE <<Head(sorted)>> \o InsertLabel(l, Tail(sorted))

RECURSIVE SortLabels(_)
\* line 368: sort.Sort(labelsByName(promTS.Labels)), names distinct
SortLabels(labels) ==
    IF labels = <<>> THEN <<>>
    ELSE InsertLabel(labels[Len(labels)], SortLabels(SubSeq(labels, 1, Len(labels) - 1)))

\* storage.PromTimestampToTime: milliseconds since the epoch as nanoseconds
PromTimestampToTime(t) == t * 1000000

\* lines 472-478: tagIterator.Reset(labels)
TagIteratorReset(labels) == [numTags |-> Len(labels), idx |-> -1, labels |-> labels]

\* lines 459-470: newTagIterator()
NewTagIterator == TagIteratorReset(<<>>)

\* what Current() returns when the iterator is on no series: nil, nil, 0
NoView == [isNil |-> TRUE, tags |-> NewTagIterator, datapoints |-> <<>>, unit |-> "None"]

NoTSIter ==
    [made |-> FALSE, input |-> <<>>, idx |-> -1, timeseries |-> <<>>,
     datapoints |-> <<>>, tagIter |-> NewTagIterator, log |-> <<>>, prev |-> <<>>,
     restarts |-> 0, ret |-> [isNil |-> TRUE, unit |-> "None"]]

\* lines 346-382: NewTimeSeriesIter(series, tagOpts)
NewTimeSeriesIter ==
    /\ ~tsIter.made
    /\ \E series \in TimeSeriesInputs :
          tsIter' = [NoTSIter EXCEPT
                        !.made = TRUE,
                        !.input = series,
                        !.timeseries =
                            [k \in 1..Len(series) |->
                                [series[k] EXCEPT !.Labels = SortLabels(@)]]]
    /\ UNCHANGED <<tileVars, handler, parseCall>>

\* lines 438-444: Current() of an iterator in state it
PromTSIterCurrentValue(it) ==
    IF Len(it.timeseries) = 0 \/ it.idx < 0 \/ it.idx >= Len(it.timeseries)
    THEN NoView
    ELSE [isNil |-> FALSE, tags |-> it.tagIter, datapoints |-> it.datapoints,
          unit |-> "Millisecond"]

NextIdxOffByOne(idx) == idx + 2

\* line 421: i.idx++
NextIdx(idx) == idx + 1

\* lines 420-436: Next(), as the iterator after the call
PromTSIterNextState(it) ==
    LET idx == NextIdx(it.idx) IN
    IF ~(idx < Len(it.timeseries)) THEN [it EXCEPT !.idx = idx]
    ELSE [it EXCEPT
             !.idx = idx,
             !.tagIter = TagIteratorReset(it.timeseries[idx + 1].Labels),
             !.datapoints =
                 [k \in 1..Len(it.timeseries[idx + 1].Samples) |->
                     [Timestamp |->
                          PromTimestampToTime(it.timeseries[idx + 1].Samples[k].Timestamp),
                      Value |-> it.timeseries[idx + 1].Samples[k].Value]]]

PromTSIterNext ==
    /\ tsIter.made
    /\ Len(tsIter.log) < Len(tsIter.timeseries) + ExtraNexts
    /\ LET it == PromTSIterNextState(tsIter)
           ok == it.idx < Len(it.timeseries)
       IN
       tsIter' = [it EXCEPT
                     !.log = Append(@, [ok |-> ok, idx |-> it.idx,
                                        cur |-> PromTSIterCurrentValue(it)])]
    /\ UNCHANGED <<tileVars, handler, parseCall>>

RestartIdxKept(idx) == idx

\* line 385: i.idx = -1
RestartIdx(idx) == -1

\* lines 384-388: Restart()
PromTSIterRestart ==
    /\ tsIter.made
    /\ tsIter.restarts < MaxRestarts
    /\ tsIter' = [tsIter EXCEPT
                     !.idx = RestartIdx(@),
                     !.tagIter = TagIteratorReset(@.labels),
                     !.datapoints = <<>>,
                     !.log = <<>>,
                     !.prev = IF Len(tsIter.log) > Len(@) THEN tsIter.log ELSE @,
                     !.restarts = @ + 1]
    /\ UNCHANGED <<tileVars, handler, parseCall>>

\* lines 438-444: Current(); the tag iterator and the datapoints it returns are
\* the iterator's own tagIter and datapoints, not copies
PromTSIterCurrent ==
    /\ tsIter.made
    /\ tsIter' = [tsIter EXCEPT
                     !.ret = [isNil |-> PromTSIterCurrentValue(tsIter).isNil,
                              unit |-> PromTSIterCurrentValue(tsIter).unit]]
    /\ UNCHANGED <<tileVars, handler, parseCall>>

\* lines 480-489: Next() of the tag iterator Current() handed out; idx grows
\* on every call, past numTags too
TagIteratorNext ==
    /\ tsIter.made
    /\ tsIter.tagIter.idx < MaxTagIdx
    /\ tsIter' = [tsIter EXCEPT !.tagIter.idx = @ + 1]
    /\ UNCHANGED <<tileVars, handler, parseCall>>

\* lines 503-505: Close() of the tag iterator: Reset(nil)
TagIteratorClose ==
    /\ tsIter.made
    /\ tsIter' = [tsIter EXCEPT !.tagIter = TagIteratorReset(<<>>)]
    /\ UNCHANGED <<tileVars, handler, parseCall>>

\* lines 524-526: Restart() of the tag iterator: Reset(i.labels)
TagIteratorRestart ==
    /\ tsIter.made
    /\ tsIter' = [tsIter EXCEPT !.tagIter = TagIteratorReset(@.labels)]
    /\ UNCHANGED <<tileVars, handler, parseCall>>

\* lines 472-478: Reset(labels) of the tag iterator, called by its holder
TagIteratorResetTo ==
    /\ tsIter.made
    /\ \E labels \in ResetLabels :
          tsIter' = [tsIter EXCEPT !.tagIter = TagIteratorReset(labels)]
    /\ UNCHANGED <<tileVars, handler, parseCall>>


-----------------------------------------------------------------------------
(* seriesBlockIter *)

\* what the last operation returned; for Close also what its three releases
\* produced
NoRet ==
    [op |-> "none", ok |-> FALSE, err |-> Nil, cur |-> <<NoRef, NoID, NoTags>>,
     outcomes |-> <<Nil, Nil, Nil>>]

Call(fn, args) == [fn |-> fn, args |-> args]

OptionsSet == [UseArrow : BOOLEAN, Start : Starts, FrameSize : FrameSizes]

InitHist ==
    [nextCalls |-> 0, closeCalls |-> 0,
     falseSeen |-> FALSE,     \* some Next has returned false
     falseBefore |-> FALSE,   \* falseSeen, as it was when the last Next began
     falseErr |-> Nil,        \* reader.Err() at the first Next that returned false
     failedBefore |-> FALSE,  \* the frame iterator held a decode error when the last Next began
     posSeries |-> NoSeries,  \* what reader.Current() returned in the last Next that returned true
     readerNexts |-> 0,       \* calls of reader.Next()
     releases |-> 0]          \* calls of recorder.release() made by Close (line 93)

InitWith(pool, left, optSet) ==
    /\ constructed = FALSE
    /\ opts \in optSet
    /\ ctorErr = Nil
    /\ err = Nil
    /\ exhausted = FALSE
    /\ step = 0
    /\ start = 0
    /\ recorder = NoRef
    /\ iter = NoRef
    /\ blockIter = NoRef
    /\ tags = NoTags
    /\ id = NoID
    /\ reader = [pool |-> pool, left |-> left, cur |-> NoSeries, err |-> Nil]
    /\ blockSt = BlockIterNew(NoRef)
    /\ iterSt = FrameIterNew(NoRef, NoRef)
    /\ recSt = RecorderNew(NoRef, "flat")
    /\ ret = NoRet
    /\ callLog = <<>>
    /\ hist = InitHist
    /\ handler = NewPromWriteHandler
    /\ parseCall = NotParsed
    /\ tsIter = NoTSIter

Init == InitWith("plain", MaxSeries, OptionsSet)

\* lines 51-56: the recorder backend Options.UseArrow selects
RecorderKind(useArrow) == IF useArrow THEN "columnar" ELSE "flat"

\* lines 47-68: NewSeriesBlockIterator(reader, opts)
NewSeriesBlockIterator ==
    /\ ~constructed
    /\ constructed' = TRUE
    /\ recSt' = RecorderNew("recorder1", RecorderKind(opts.UseArrow))
    /\ iterSt' = FrameIterNew("iter1", "recorder1")
    /\ blockSt' = BlockIterNew("blockIter1")
    /\ start' = opts.Start
    /\ step' = opts.FrameSize
    /\ recorder' = "recorder1"
    /\ iter' = "iter1"
    /\ blockIter' = "blockIter1"
    /\ ctorErr' = Nil
    /\ ret' = [NoRet EXCEPT !.op = "New", !.err = Nil]
    /\ callLog' = <<>>
    /\ UNCHANGED <<opts, err, exhausted, tags, id, reader, hist>>
    /\ UNCHANGED writeVars

LatchedOnErrorOnly(exh, e) == e # Nil

LatchedNever(exh, e) == FALSE

\* line 71: the terminal test of Next
Latched(exh, e) == exh \/ e # Nil

NextCallsIterFirst(recs, args, bi) ==
    <<Call("reader.Next", <<>>), Call("reader.Current", <<>>),
      Call("iter.Reset", <<args[1], args[2], bi>>), Call("blockIter.Reset", <<recs>>)>>

\* lines 75-84: the calls a Next that returns true makes, in order
NextCalls(recs, args, bi) ==
    <<Call("reader.Next", <<>>), Call("reader.Current", <<>>),
      Call("blockIter.Reset", <<recs>>), Call("iter.Reset", <<args[1], args[2], bi>>)>>

IterResetArgsSwapped(s, d) == <<d, s>>

IterResetArgsFromZero(s, d) == <<0, d>>

\* line 84: the start and step handed to iter.Reset
IterResetArgs(s, d) == <<s, d>>

FailedNextViewCleared(i, t) == <<NoID, NoTags>>

\* lines 71-79: the id and tags a Next() that returns false leaves behind: it
\* returns before line 82 and assigns neither
FailedNextView(i, t) == <<i, t>>

\* lines 70-86: Next()
SeriesBlockIterNext ==
    /\ constructed
    /\ hist.nextCalls < MaxNextCalls
    /\ IF Latched(exhausted, err)
       THEN /\ ret' = [NoRet EXCEPT !.op = "Next", !.ok = FALSE]
            /\ callLog' = <<>>
            /\ hist' = [hist EXCEPT !.nextCalls = @ + 1,
                                    !.falseBefore = hist.falseSeen,
                                    !.failedBefore = (iterSt.err = ErrDecode),
                                    !.falseSeen = TRUE]
            /\ id' = FailedNextView(id, tags)[1]
            /\ tags' = FailedNextView(id, tags)[2]
            /\ UNCHANGED <<err, exhausted, reader, blockSt, iterSt>>
       ELSE \E o \in ReaderNextOutcomes(reader) :
            /\ reader' = o.reader
            /\ IF ~o.ok
               THEN /\ exhausted' = TRUE
                    /\ err' = o.reader.err
                    /\ ret' = [NoRet EXCEPT !.op = "Next", !.ok = FALSE]
                    /\ callLog' = <<Call("reader.Next", <<>>), Call("reader.Err", <<>>)>>
                    /\ hist' = [hist EXCEPT !.nextCalls = @ + 1,
                                            !.readerNexts = @ + 1,
                                            !.falseBefore = hist.falseSeen,
                                            !.failedBefore = (iterSt.err = ErrDecode),
                                            !.falseSeen = TRUE,
                                            !.falseErr = IF hist.falseSeen THEN @
                                                         ELSE o.reader.err]
                    /\ id' = FailedNextView(id, tags)[1]
                    /\ tags' = FailedNextView(id, tags)[2]
                    /\ UNCHANGED <<blockSt, iterSt>>
               ELSE LET cur == o.reader.cur
                        args == IterResetArgs(start, step)
                    IN
                    /\ id' = cur.id
                    /\ tags' = cur.tags
                    /\ blockSt' = BlockIterReset(blockSt, cur.records)
                    /\ iterSt' = FrameIterReset(iterSt, args[1], args[2], blockIter)
                    /\ ret' = [NoRet EXCEPT !.op = "Next", !.ok = TRUE]
                    /\ callLog' = NextCalls(cur.records, args, blockIter)
                    /\ hist' = [hist EXCEPT !.nextCalls = @ + 1,
                                            !.readerNexts = @ + 1,
                                            !.falseBefore = hist.falseSeen,
                                            !.failedBefore = (iterSt.err = ErrDecode),
                                            !.posSeries = cur]
                    /\ UNCHANGED <<err, exhausted>>
    /\ UNCHANGED <<constructed, opts, ctorErr, step, start, recorder, iter,
                   blockIter, recSt>>
    /\ UNCHANGED writeVars

CurrentValueNoTags == <<iter, id, NoTags>>

\* line 89: what Current() returns
CurrentValue == <<iter, id, tags>>

\* lines 88-90: Current()
SeriesBlockIterCurrent ==
    /\ constructed
    /\ ret' = [NoRet EXCEPT !.op = "Current", !.cur = CurrentValue]
    /\ callLog' = <<>>
    /\ UNCHANGED <<constructed, opts, ctorErr, bFields, reader, blockSt, iterSt,
                   recSt, hist>>
    /\ UNCHANGED writeVars

ErrValueOfReader == reader.err

\* line 99: what Err() returns
ErrValue == err

\* lines 98-100: Err()
SeriesBlockIterErr ==
    /\ constructed
    /\ ret' = [NoRet EXCEPT !.op = "Err", !.err = ErrValue]
    /\ callLog' = <<>>
    /\ UNCHANGED <<constructed, opts, ctorErr, bFields, reader, blockSt, iterSt,
                   recSt, hist>>
    /\ UNCHANGED writeVars

\* lines 93-95: the releases Close() performs, in order
CloseSteps == <<"recorder.release", "blockIter.Close", "iter.Close">>

\* Close() that also forgets the recorder it released
SeriesBlockIterCloseDropsRecorder ==
    /\ constructed
    /\ hist.closeCalls < MaxCloses
    /\ \E e1 \in RecorderReleaseErrs(recSt), e2 \in BlockIterCloseErrs(blockSt),
          e3 \in FrameIterCloseErrs(iterSt) :
          LET rec1 == RecorderRelease(recSt, e1) IN
          /\ recSt' = RecorderRelease(rec1, FrameIterReleaseErr(rec1, e3))
          /\ ret' = [NoRet EXCEPT !.op = "Close", !.err = e3,
                                   !.outcomes = <<e1, e2, e3>>]
          /\ hist' = [hist EXCEPT !.closeCalls = @ + 1, !.releases = @ + 1]
    /\ blockSt' = BlockIterClose(blockSt)
    /\ iterSt' = FrameIterClose(iterSt)
    /\ recorder' = NoRef
    /\ callLog' = [i \in 1..Len(CloseSteps) |-> Call(CloseSteps[i], <<>>)]
    /\ UNCHANGED <<constructed, opts, ctorErr, err, exhausted, step, start,
                   iter, blockIter, tags, id, reader>>
    /\ UNCHANGED writeVars

\* line 95: the value Close() returns, given what the three releases produced:
\* what release() and blockIter.Close() produce is dropped (lines 93-94)
CloseResult(outcomes) == outcomes[3]

\* lines 92-96: Close(); no flag says that it ran before
SeriesBlockIterClose ==
    /\ constructed
    /\ hist.closeCalls < MaxCloses
    /\ \E e1 \in RecorderReleaseErrs(recSt), e2 \in BlockIterCloseErrs(blockSt),
          e3 \in FrameIterCloseErrs(iterSt) :
          LET rec1 == RecorderRelease(recSt, e1)
              outcomes == <<e1, e2, e3>>
          IN
          \* iter.Close() releases the recorder it wraps once more
          /\ recSt' = RecorderRelease(rec1, FrameIterReleaseErr(rec1, e3))
          /\ ret' = [NoRet EXCEPT !.op = "Close", !.err = CloseResult(outcomes),
                                   !.outcomes = outcomes]
          /\ hist' = [hist EXCEPT !.closeCalls = @ + 1, !.releases = @ + 1]
    /\ blockSt' = BlockIterClose(blockSt)
    /\ iterSt' = FrameIterClose(iterSt)
    /\ callLog' = [i \in 1..Len(CloseSteps) |-> Call(CloseSteps[i], <<>>)]
    /\ UNCHANGED <<constructed, opts, ctorErr, bFields, reader>>
    /\ UNCHANGED writeVars

-----------------------------------------------------------------------------
(* the caller drives the frame iterator Current() handed out *)

FrameIterNext ==
    /\ constructed
    /\ LET r == FrameIterNextResult(iterSt, blockSt) IN
       /\ iterSt' = r.iter
       /\ blockSt' = r.block
       /\ ret' = [NoRet EXCEPT !.op = "Frame.Next", !.ok = r.ok, !.err = r.iter.err]
    /\ callLog' = <<>>
    /\ UNCHANGED <<constructed, opts, ctorErr, bFields, reader, recSt, hist>>
    /\ UNCHANGED writeVars

\* the external reader's Err() comes to report something else
ReaderErrChanges ==
    /\ constructed
    /\ \E e \in ({Nil} \cup ReaderErrs) \ {reader.err} :
          reader' = [reader EXCEPT !.err = e]
    /\ UNCHANGED <<constructed, opts, ctorErr, bFields, blockSt, iterSt, recSt,
                   ret, callLog, hist>>
    /\ UNCHANGED writeVars

-----------------------------------------------------------------------------

Next ==
    \/ NewSeriesBlockIterator
    \/ SeriesBlockIterNext
    \/ SeriesBlockIterCurrent
    \/ SeriesBlockIterErr
    \/ SeriesBlockIterClose
    \/ FrameIterNext
    \/ ReaderErrChanges

Spec == Init /\ [][Next]_vars

\* one series of rich block records, windowed with a valid frame size
InitFrames ==
    InitWith("rich", 1,
             {o \in OptionsSet : o.UseArrow /\ o.FrameSize > 0})

NextFrames ==
    \/ NewSeriesBlockIterator
    \/ SeriesBlockIterNext
    \/ FrameIterNext

SpecFrames == InitFrames /\ [][NextFrames]_vars

-----------------------------------------------------------------------------
(* Properties *)

\* C1: once a Next() has returned false, every later Next() returns false too,
\* whatever the reader would report now.
NextStaysFalse ==
    (ret.op = "Next" /\ hist.falseBefore) => ~ret.ok

\* a Next() after the terminal one, while the reader still has a series to give
NextStaysFalseWitness ==
    /\ ret.op = "Next"
    /\ hist.falseBefore
    /\ ~ret.ok
    /\ reader.left > 0
    /\ err = Nil

\* C2: Err() is nil until a Next() has returned false; from then on it is the
\* error the reader reported at that Next() (nil on plain exhaustion), whatever
\* Next() calls follow and whatever the reader's Err() reports later.
ErrIsSticky ==
    ret.op = "Err" =>
        ret.err = (IF hist.falseSeen THEN hist.falseErr ELSE Nil)

\* Err() after the terminal Next() and further Next() calls, the reader now
\* reporting a different error
ErrIsStickyWitness ==
    /\ ret.op = "Err"
    /\ hist.falseSeen
    /\ hist.nextCalls >= 2
    /\ ret.err \in ReaderErrs
    /\ reader.err # ret.err

\* C3: after a decode error of the cross-block iterator during the current
\* series, the next Next() returns false and the error is what Err() holds.
DecodeErrorLatchesStream ==
    (ret.op = "Next" /\ hist.failedBefore) => (~ret.ok /\ err # Nil)

\* C4: two calls of Close() return the arena memory of the columnar recorder
\* exactly once in total, the second Close() returns no error, and over any
\* sequence of operations the recorder's release is performed at most once.
ArenaReleasedOnce ==
    /\ hist.releases <= 1
    /\ recSt.arenaReturns <= 1
    /\ (hist.closeCalls >= 2 /\ recSt.kind = "columnar") => recSt.arenaReturns = 1
    /\ (ret.op = "Close" /\ hist.closeCalls >= 2) => ret.err = Nil

FirstNonNil(outcomes) ==
    IF \E i \in 1..Len(outcomes) : outcomes[i] # Nil
    THEN outcomes[CHOOSE i \in 1..Len(outcomes) :
                     outcomes[i] # Nil /\ \A j \in 1..(i - 1) : outcomes[j] = Nil]
    ELSE Nil

\* C5: every Close(), from any state, releases the recorder, then closes the
\* cross-block iterator, then closes the frame iterator, skipping none whatever
\* an earlier one produced, and returns the first non-nil error among the three.
CloseReleasesAllInOrder ==
    /\ ret.op = "Close" =>
          /\ callLog = <<Call("recorder.release", <<>>), Call("blockIter.Close", <<>>),
                         Call("iter.Close", <<>>)>>
          /\ ret.err = FirstNonNil(ret.outcomes)
    /\ constructed =>
          /\ hist.releases = hist.closeCalls
          /\ blockSt.closes = hist.closeCalls
          /\ iterSt.closes = hist.closeCalls

\* C6: a Next() that returns true calls reader.Next(), reader.Current(),
\* blockIter.Reset(that series' block records) and iter.Reset(Options.Start,
\* Options.FrameSize, blockIter), once each and in this order.
NextResetsInOrder ==
    (ret.op = "Next" /\ ret.ok) =>
        /\ callLog = <<Call("reader.Next", <<>>), Call("reader.Current", <<>>),
                       Call("blockIter.Reset", <<hist.posSeries.records>>),
                       Call("iter.Reset", <<opts.Start, opts.FrameSize, blockIter>>)>>
        /\ hist.posSeries = reader.cur
        /\ blockSt.records = hist.posSeries.records
        /\ blockSt.pos = 0
        /\ iterSt.start = opts.Start
        /\ iterSt.step = opts.FrameSize
        /\ iterSt.src = blockSt.ref
        /\ iterSt.emitted = <<>>

\* the second Next() that returns true, on a series with datapoints
NextResetsInOrderWitness ==
    /\ ret.op = "Next"
    /\ ret.ok
    /\ hist.readerNexts = 2
    /\ reader.left = 0
    /\ blockSt.records # <<>>
    /\ opts.Start # opts.FrameSize

\* C7: NewSeriesBlockIterator with Options.FrameSize <= 0 returns an error.
InvalidFrameSizeRejected ==
    (constructed /\ opts.FrameSize <= 0) => ctorErr # Nil

\* C8: Current() returns the id and tags reader.Current() gave in the last
\* Next() that returned true, with the frame iterator reset for that series,
\* and does not advance the reader.
CurrentIsLastPositioned ==
    [][ret'.op = "Current" =>
          /\ hist'.posSeries # NoSeries =>
                ret'.cur = <<iterSt'.ref, hist'.posSeries.id, hist'.posSeries.tags>>
          /\ hist'.readerNexts = hist.readerNexts
          /\ reader'.cur = reader.cur
          /\ reader'.left = reader.left]_vars

\* Current() after the second series was positioned
CurrentIsLastPositionedWitness ==
    /\ ret.op = "Current"
    /\ hist.readerNexts = 2
    /\ reader.left = 0
    /\ ret.cur = <<"iter1", "b", "tb">>
    /\ iterSt.resets = 2

\* C9: the recorder backend, the frame iterator, the cross-block iterator, the
\* start and the step are those of construction in every later state; the frame
\* iterator Current() returns is that one instance, wrapping that one recorder.
FixedAtConstruction ==
    constructed =>
        /\ recorder = "recorder1"
        /\ recSt.ref = recorder
        /\ recSt.kind = (IF opts.UseArrow THEN "columnar" ELSE "flat")
        /\ iter = "iter1"
        /\ iterSt.ref = iter
        /\ iterSt.rec = recorder
        /\ blockIter = "blockIter1"
        /\ blockSt.ref = blockIter
        /\ start = opts.Start
        /\ step = opts.FrameSize
        /\ ret.op = "Current" => ret.cur[1] = "iter1"

\* Current() after two series and a Close(), columnar recorder
FixedAtConstructionWitness ==
    /\ ret.op = "Current"
    /\ opts.UseArrow
    /\ hist.readerNexts = 2
    /\ reader.left = 0
    /\ hist.closeCalls >= 1

RECURSIVE Flatten(_)
\* the datapoints of a sequence of frames, in order
Flatten(frames) ==
    IF frames = <<>> THEN <<>> ELSE Head(frames).pts \o Flatten(Tail(frames))

\* C10: each datapoint at t >= T0 is in the frame of index floor((t - T0) / S)
\* and in no other; frames come in increasing index order and hold the
\* datapoints in source order; a datapoint at T0 + k*S is in frame k.
FramesByIndex ==
    LET s == opts.Start
        d == opts.FrameSize
        em == iterSt.emitted
        all == Flatten(em)
        stream == Merged(hist.posSeries.records)
    IN
    /\ \A i \in 1..Len(em) :
          /\ em[i].pts # <<>>
          /\ \A j \in 1..Len(em[i].pts) :
                /\ em[i].pts[j].t >= s
                /\ em[i].start = s + d * ((em[i].pts[j].t - s) \div d)
    /\ \A i \in 1..(Len(em) - 1) : em[i].start < em[i + 1].start
    /\ Len(all) <= Len(stream)
    /\ all = SubSeq(stream, 1, Len(all))
    /\ iterSt.done => all = stream

\* a series drained to its end whose second frame opens with a datapoint
\* exactly on the frame boundary, the start not being 0
FramesByIndexWitness ==
    /\ iterSt.done
    /\ opts.Start = 1
    /\ Len(iterSt.emitted) = 2
    /\ Len(hist.posSeries.records) = 2
    /\ iterSt.emitted[2].pts[1].t = iterSt.emitted[2].start
    /\ iterSt.emitted[2].start = opts.Start + opts.FrameSize

\* the frame indices the datapoints of a stream occupy
OccupiedFrames(stream, s, d) ==
    {FrameIndex(stream[i].t, s, d) : i \in 1..Len(stream)}

\* C11: only non-empty frames are emitted: a drained series gave as many
\* frames as its datapoints occupy distinct frame indices (frames 0 and 3 only:
\* two frames), and a series without datapoints gives none, the frame
\* iterator's first Next() returning false.
OnlyOccupiedFramesEmitted ==
    LET s == opts.Start
        d == opts.FrameSize
        em == iterSt.emitted
        stream == Merged(hist.posSeries.records)
    IN
    /\ \A i \in 1..Len(em) : em[i].pts # <<>>
    /\ iterSt.done =>
          /\ Len(em) = Cardinality(OccupiedFrames(stream, s, d))
          /\ {em[i].start : i \in 1..Len(em)} =
                {s + k * d : k \in OccupiedFrames(stream, s, d)}
    /\ (ret.op = "Frame.Next" /\ hist.posSeries # NoSeries /\ stream = <<>>) =>
          (~ret.ok /\ em = <<>>)

\* a drained series whose datapoints lie in frames 0 and 3 only
OnlyOccupiedFramesEmittedWitness ==
    /\ iterSt.done
    /\ Len(iterSt.emitted) = 2
    /\ iterSt.emitted[1].start = opts.Start
    /\ iterSt.emitted[2].start = opts.Start + 3 * opts.FrameSize

\* the datapoints the block records hold, block after block
RECURSIVE AllBlockDPs(_, _)
AllBlockDPs(records, b) ==
    IF b > Len(records) THEN <<>>
    ELSE BlockDPs(b, records[b].pts) \o AllBlockDPs(records, b + 1)

\* C12: for block records that decode cleanly the cross-block iterator yields
\* every datapoint of every block exactly once, in non-decreasing timestamp
\* order, also over empty blocks, gaps and overlapping blocks, and reports no
\* error.
MergeYieldsAllInOrder ==
    LET recs == blockSt.records
        m == Merged(recs)
        all == AllBlockDPs(recs, 1)
    IN
    ~HasDecodeError(recs) =>
        /\ \A i \in 1..(Len(m) - 1) : m[i].t <= m[i + 1].t
        /\ Len(m) = Len(all)
        /\ \A i \in 1..Len(all) :
              Cardinality({k \in 1..Len(m) : m[k] = all[i]}) = 1
        /\ blockSt.pos <= Len(m)
        /\ blockSt.err = Nil
        /\ iterSt.err # ErrDecode

\* two overlapping blocks (the second starts before the first ends), read to
\* the end
MergeYieldsAllInOrderWitness ==
    /\ Len(blockSt.records) = 2
    /\ ~HasDecodeError(blockSt.records)
    /\ Len(blockSt.records[1].pts) > 0
    /\ Len(blockSt.records[2].pts) > 0
    /\ blockSt.records[2].pts[1] <
          blockSt.records[1].pts[Len(blockSt.records[1].pts)]
    /\ blockSt.pos = Len(Merged(blockSt.records))
    /\ iterSt.done

\* C13: after a Close(), a Next() resets neither the cross-block iterator nor
\* the frame iterator that wraps the released recorder.
NoResetAfterClose ==
    (ret.op = "Next" /\ hist.closeCalls > 0) =>
        \A i \in 1..Len(callLog) :
            callLog[i].fn \notin {"blockIter.Reset", "iter.Reset"}

\* the reader calls an operation made
ReaderCalls(log) ==
    {i \in 1..Len(log) : log[i].fn \in {"reader.Next", "reader.Current", "reader.Err"}}

\* C14: a Next() calls reader.Next() at most once; once a reader.Next() has
\* returned false no later Next() calls the reader again; Current() and Err()
\* never call the reader.
ReaderLeftAloneWhenDone ==
    /\ [](/\ ret.op = "Next" =>
                Cardinality({i \in 1..Len(callLog) : callLog[i].fn = "reader.Next"}) <= 1
          /\ (ret.op = "Next" /\ hist.falseBefore) => ReaderCalls(callLog) = {}
          /\ ret.op \in {"Current", "Err"} => ReaderCalls(callLog) = {})
    /\ [][/\ hist.falseSeen =>
                /\ hist'.readerNexts = hist.readerNexts
                /\ reader'.cur = reader.cur
                /\ reader'.left = reader.left
          /\ ret'.op \in {"Current", "Err"} =>
                /\ hist'.readerNexts = hist.readerNexts
                /\ reader'.cur = reader.cur
                /\ reader'.left = reader.left]_vars

\* a Next() after the one in which the reader reported plain exhaustion, the
\* reader still holding a series
ReaderLeftAloneWhenDoneWitness ==
    /\ ret.op = "Next"
    /\ hist.falseBefore
    /\ hist.nextCalls = 3
    /\ hist.readerNexts = 2
    /\ hist.falseErr = Nil
    /\ reader.left > 0

\* C15: a Next() that returns false leaves id, tags, the cross-block iterator
\* and the frame iterator as they were; exhausted and err change at most on the
\* first false return; Current() afterwards still gives the last positioned
\* series, or the zero id and tags.
FailedNextKeepsView ==
    /\ [][(hist'.nextCalls = hist.nextCalls + 1 /\ ~ret'.ok) =>
             /\ id' = id
             /\ tags' = tags
             /\ blockSt' = blockSt
             /\ iterSt' = iterSt
             /\ hist'.posSeries = hist.posSeries
             /\ hist.falseSeen => (exhausted' = exhausted /\ err' = err)]_vars
    /\ [](ret.op = "Current" =>
             ret.cur = <<iter, hist.posSeries.id, hist.posSeries.tags>>)

\* Current() after a Next() that failed on a positioned iterator whose frames
\* were partly consumed
FailedNextKeepsViewWitness ==
    /\ ret.op = "Current"
    /\ hist.falseSeen
    /\ hist.posSeries # NoSeries
    /\ ret.cur[2] = hist.posSeries.id
    /\ iterSt.emitted # <<>>
    /\ err # Nil

\* the write path alone: the frame iteration engine is never constructed
InitWrite ==
    InitWith("plain", MaxSeries, {[UseArrow |-> FALSE, Start |-> 0, FrameSize |-> 1]})

NextWrite ==
    \/ ServeHTTP
    \/ ServeHTTPParse
    \/ ServeHTTPWrite
    \/ ServeHTTPWriteReturn
    \/ ServeHTTPRecord
    \/ ServeHTTPRespond

SpecWrite == InitWrite /\ [][NextWrite]_vars

\* parseRequest alone
InitParse ==
    InitWith("plain", MaxSeries, {[UseArrow |-> FALSE, Start |-> 0, FrameSize |-> 1]})

NextParse ==
    \/ ParseRequestCall

SpecParse == InitParse /\ [][NextParse]_vars

-----------------------------------------------------------------------------
(* Properties of PromWriteHandler *)

\* the calls of ServeHTTP that have returned
Done == CallsAt("done")

\* call k called WriteBatch, got a batch error back and has answered
BatchFailed(k) ==
    /\ k \in Done
    /\ handler.calls[k].wrote
    /\ ~handler.calls[k].batch.isNil

ClientErrKinds == {"badRequest", "invalidParams"}

\* C16: when the write returns a non-nil batch error, the status is 400 if every
\* error of the batch is a bad-request or invalid-params error, and 500 if at
\* least one error is neither, however many bad-request errors come with it.
BatchErrorStatus ==
    \A k \in 1..Len(handler.calls) :
        BatchFailed(k) =>
            LET errs == handler.calls[k].batch.errs IN
            IF \A i \in 1..Len(errs) : errs[i] \in ClientErrKinds
            THEN handler.calls[k].status = 400
            ELSE handler.calls[k].status = 500

\* a batch of one bad-request error and one retryable error was answered
BatchErrorStatusWitness ==
    \E k \in 1..Len(handler.calls) :
        /\ BatchFailed(k)
        /\ handler.calls[k].batch.errs = <<"badRequest", "retryable">>
        /\ handler.calls[k].status = 500

\* the counter a call of ServeHTTP that has returned is to have incremented
OutcomeCounter(c) ==
    IF c.rErr # NoParseError \/ (~c.batch.isNil /\ c.status = 400)
    THEN "writeErrorsClient"
    ELSE IF ~c.batch.isNil /\ c.status = 500 THEN "writeErrorsServer"
    ELSE "writeSuccess"

\* how many calls that have returned are to have incremented counter name
Outcomes(name) ==
    Cardinality({k \in Done : OutcomeCounter(handler.calls[k]) = name})

\* C17: every ServeHTTP increments exactly one of the three outcome counters by
\* exactly 1: writeErrorsClient when parsing fails or the batch error maps to
\* 400, writeErrorsServer when the batch error maps to 500, writeSuccess
\* otherwise; and WriteBatch is called if and only if parsing succeeded.
OneCounterPerRequest ==
    /\ [](/\ \A k \in 1..Len(handler.calls) :
               LET c == handler.calls[k] IN
               /\ k \in Done => c.incs = <<OutcomeCounter(c)>>
               /\ k \notin Done => c.incs = <<>>
               /\ k \in Done => (c.wrote <=> c.rErr = NoParseError)
               /\ c.wrote => c.rErr = NoParseError
          /\ handler.writeSuccess = Outcomes("writeSuccess")
          /\ handler.writeErrorsClient = Outcomes("writeErrorsClient")
          /\ handler.writeErrorsServer = Outcomes("writeErrorsServer")
          /\ handler.writes =
                Cardinality({k \in 1..Len(handler.calls) : handler.calls[k].wrote}))
    /\ [][(handler'.writeSuccess - handler.writeSuccess)
          + (handler'.writeErrorsClient - handler.writeErrorsClient)
          + (handler'.writeErrorsServer - handler.writeErrorsServer) \in {0, 1}]_vars

\* a call is inside WriteBatch while another, begun after it, has been written
\* and counted as a success
OneCounterPerRequestWitness ==
    /\ Len(handler.calls) = 2
    /\ handler.calls[1].pc = "record"
    /\ handler.calls[2].pc = "done"
    /\ handler.writes = 2
    /\ handler.ingestLatency = 1
    /\ handler.writeSuccess = 1

\* what parseRequest derives from the headers of the last request, the storage
\* policy header counting as set when policySet holds
DerivedFromHeaders(l, policySet) ==
    LET v == TrimSpace(l.r.mtype)
        strPolicy == TrimSpace(l.r.policy)
        unaggregated == v = <<"unaggregated">>
        validType == v \in {<<"unaggregated">>, <<"aggregated">>}
        validPolicy == strPolicy = <<"1m:40d">>
        rejected == /\ v # <<>>
                    /\ \/ ~validType
                       \/ unaggregated /\ policySet
                       \/ ~unaggregated /\ ~validPolicy
    IN
    /\ rejected =>
          /\ l.rErr.code = 400
          /\ l.req = NoWriteRequest
    /\ l.rErr = NoParseError =>
          /\ v = <<>> => l.opts = NoWriteOptions
          /\ v # <<>> => /\ l.opts.DownsampleOverride
                         /\ l.opts.DownsampleMappingRules = <<>>
          /\ l.opts.WriteOverride <=> (v # <<>> /\ ~unaggregated)
          /\ l.opts.WriteOverride =>
                l.opts.WriteStoragePolicies =
                    <<[resolution |-> "1m", retention |-> "40d"]>>
          /\ ~l.opts.WriteOverride => l.opts.WriteStoragePolicies = <<>>

\* C18 as stated: with no or a blank metrics-type header all overrides are off;
\* with a valid type DownsampleOverride is true with no mapping rules;
\* WriteOverride is set with exactly the one parsed policy iff the type is not
\* unaggregated; an unaggregated type with a non-empty storage-policy header, an
\* unparseable type or an unparseable policy is rejected with a 400 parse error
\* and a nil request.
OptionsFromRawHeaders ==
    parseCall.called => DerivedFromHeaders(parseCall, parseCall.r.policy # <<>>)

\* C18: the same, the storage-policy header of an unaggregated write counting
\* as non-empty when it is non-empty after its surrounding white space is
\* trimmed.
OptionsFromTrimmedHeaders ==
    parseCall.called =>
        DerivedFromHeaders(parseCall, TrimSpace(parseCall.r.policy) # <<>>)

\* an unaggregated write naming a storage policy inside white space was rejected
OptionsFromTrimmedHeadersWitness ==
    /\ parseCall.called
    /\ parseCall.r.mtype = <<" ", "unaggregated", " ">>
    /\ parseCall.r.policy = <<" ", "1m:40d">>
    /\ parseCall.rErr =
          ParseError("errUnaggregatedStoragePolicySet", StatusBadRequest)

-----------------------------------------------------------------------------
(* promTSIter alone *)

InitIter ==
    InitWith("plain", MaxSeries, {[UseArrow |-> FALSE, Start |-> 0, FrameSize |-> 1]})

NextIter ==
    \/ NewTimeSeriesIter
    \/ PromTSIterNext
    \/ PromTSIterRestart
    \/ PromTSIterCurrent
    \/ TagIteratorNext
    \/ TagIteratorClose
    \/ TagIteratorRestart
    \/ TagIteratorResetTo

SpecIter == InitIter /\ [][NextIter]_vars

\* cur is the view of series: its labels, each once, in a tag iterator that has
\* not started, and its samples in order, their timestamps as times
IsViewOf(cur, series) ==
    /\ ~cur.isNil
    /\ cur.unit = "Millisecond"
    /\ cur.tags.idx = -1
    /\ cur.tags.numTags = Len(series.Labels)
    /\ Len(cur.tags.labels) = Len(series.Labels)
    /\ {cur.tags.labels[k] : k \in 1..Len(cur.tags.labels)} =
       {series.Labels[k] : k \in 1..Len(series.Labels)}
    /\ Len(cur.datapoints) = Len(series.Samples)
    /\ \A k \in 1..Len(series.Samples) :
          /\ cur.datapoints[k].Timestamp = series.Samples[k].Timestamp * 1000000
          /\ cur.datapoints[k].Value = series.Samples[k].Value

\* C19: over n time series, starting fresh or after Restart(), Next() returns
\* true exactly n times, positioning on series 0..n-1 in index order, and false
\* on every further call; after Restart() the same sequence of (tags,
\* datapoints) is replayed from series 0, however many Next() calls came before.
RestartReplays ==
    tsIter.made =>
        LET n == Len(tsIter.input)
            log == tsIter.log
            prev == tsIter.prev
        IN
        /\ \A k \in 1..Len(log) :
              /\ log[k].ok = (k <= n)
              /\ k <= n => /\ log[k].idx = k - 1
                           /\ IsViewOf(log[k].cur, tsIter.input[k])
              /\ k > n => log[k].cur = NoView
        /\ \A k \in 1..Len(log) : k <= Len(prev) => log[k] = prev[k]

\* two series were iterated to the end, and again after Restart()
RestartReplaysWitness ==
    /\ tsIter.made
    /\ Len(tsIter.input) = 2
    /\ tsIter.input[1] # tsIter.input[2]
    /\ tsIter.restarts > 0
    /\ Len(tsIter.prev) = 3
    /\ Len(tsIter.log) = 4
    /\ ~tsIter.log[4].ok

====
